---- MODULE Spec2Model ----
(***************************************************************************)
(* A model of solar_observatory.py: the reference (HMI) acquisition, the   *)
(* five concurrent auxiliary (AIA) acquisitions, the assembly of the six   *)
(* channel records and the serialization of the container file solar.dat   *)
(* and of timestamp.txt.                                                   *)
(*                                                                         *)
(* Python values are modelled as follows.  A tuple is a TLA+ tuple.  A     *)
(* numpy array of samples is a sequence of integers (row-major when it     *)
(* has been flattened, a sequence of rows before).  A datetime is the      *)
(* tuple <<year, month, day, hour, minute, second>>.  A str or bytes value *)
(* is the sequence of its byte values.  None is the tuple <<-1>>, which is *)
(* no array, no datetime and no str of the model.                          *)
(***************************************************************************)
EXTENDS Integers, Sequences, FiniteSets, TLC

\* The target resolution.  The program resizes every image to 2048 x 2048;
\* the model keeps the same code paths on images of Target x Target.
Target == 2

None == << -1 >>

\* Stand-in for a non-finite sample (NaN, +Inf, -Inf) of a raw image.
NaN == 1000001

--------------------------------------------------------------------------
(* Arithmetic and sequence helpers                                         *)

Min(a, b) == IF a < b THEN a ELSE b

Max(a, b) == IF a > b THEN a ELSE b

\* round(num / den) for num >= 0, den > 0
RoundDiv(num, den) == (2 * num + den) \div (2 * den)

RECURSIVE Concat(_)
\* b''.join(chunks)
Concat(chunks) ==
  IF chunks = << >> THEN << >> ELSE Head(chunks) \o Concat(Tail(chunks))

RECURSIVE SeqMin(_)
SeqMin(s) == IF Len(s) = 1 THEN s[1] ELSE Min(s[1], SeqMin(Tail(s)))

RECURSIVE SeqMax(_)
SeqMax(s) == IF Len(s) = 1 THEN s[1] ELSE Max(s[1], SeqMax(Tail(s)))

--------------------------------------------------------------------------
(* Timestamps: T_REC parsing and strftime                                  *)

\* '2024.01.01_12:00:00_TAI', the T_REC key of the most recent record
T_REC_latest ==
  << 50, 48, 50, 52, 46, 48, 49, 46, 48, 49, 95,
     49, 50, 58, 48, 48, 58, 48, 48, 95, 84, 65, 73 >>

\* latest_rec.replace('_TAI', '') for a T_REC that ends in '_TAI'
StripTAI(s) ==
  IF Len(s) >= 4 /\ SubSeq(s, Len(s) - 3, Len(s)) = << 95, 84, 65, 73 >>
  THEN SubSeq(s, 1, Len(s) - 4)
  ELSE s

IsDigit(c) == c >= 48 /\ c <= 57

RECURSIVE ParseInt(_)
\* int() of a string of decimal digits
ParseInt(s) ==
  IF s = << >> THEN 0
  ELSE 10 * ParseInt(SubSeq(s, 1, Len(s) - 1)) + (s[Len(s)] - 48)

\* datetime.strptime(s, '%Y.%m.%d_%H:%M:%S'); None stands for ValueError.
\* The first format tried, '%Y.%m.%d_%H:%M:%S.%f', fails on a string with
\* no fraction, and the except branch parses with this one.
Strptime(s) ==
  IF /\ Len(s) = 19
     /\ s[5] = 46 /\ s[8] = 46 /\ s[11] = 95 /\ s[14] = 58 /\ s[17] = 58
     /\ \A i \in (1..19) \ {5, 8, 11, 14, 17} : IsDigit(s[i])
  THEN << ParseInt(SubSeq(s, 1, 4)), ParseInt(SubSeq(s, 6, 7)),
          ParseInt(SubSeq(s, 9, 10)), ParseInt(SubSeq(s, 12, 13)),
          ParseInt(SubSeq(s, 15, 16)), ParseInt(SubSeq(s, 18, 19)) >>
  ELSE None

RECURSIVE ZeroPad(_, _)
\* '%0<width>d' % n
ZeroPad(n, width) ==
  IF width = 0 THEN << >>
  ELSE ZeroPad(n \div 10, width - 1) \o << 48 + (n % 10) >>

\* Mutant of Strftime: isoformat, with a 'T' and a trailing 'Z'
Strftime_Iso(t) ==
  ZeroPad(t[1], 4) \o << 45 >> \o ZeroPad(t[2], 2) \o << 45 >> \o
  ZeroPad(t[3], 2) \o << 84 >> \o ZeroPad(t[4], 2) \o << 58 >> \o
  ZeroPad(t[5], 2) \o << 58 >> \o ZeroPad(t[6], 2) \o << 90 >>

\* timestamp.strftime('%Y-%m-%d %H:%M:%S').encode('ascii')
Strftime(t) ==
  ZeroPad(t[1], 4) \o << 45 >> \o ZeroPad(t[2], 2) \o << 45 >> \o
  ZeroPad(t[3], 2) \o << 32 >> \o ZeroPad(t[4], 2) \o << 58 >> \o
  ZeroPad(t[5], 2) \o << 58 >> \o ZeroPad(t[6], 2)

--------------------------------------------------------------------------
(* The normalizer: nan_to_num, clip and scale, zoom, crop, flatten         *)

\* np.nan_to_num(x, nan=0.0, posinf=0.0, neginf=0.0) on one sample
NanToNum(x) == IF x = NaN THEN 0 ELSE x

\* Mutant of ClipScale: the product is rounded to the nearest integer
\* (np.rint) before the cast
ClipScale_Round(x, vmin, vmax, nancast) ==
  IF vmax = vmin THEN nancast
  ELSE IF x <= vmin THEN 0
  ELSE IF x >= vmax THEN 255
  ELSE RoundDiv((x - vmin) * 255, vmax - vmin)

\* (np.clip((x - vmin) / (vmax - vmin), 0, 1) * 255).astype(np.uint8) on one
\* sample.  With vmax = vmin the quotient is 0/0 = NaN (numpy warns, and the
\* warnings are ignored), clip and the product keep it, and the cast of NaN
\* to uint8 is undefined: nancast is the byte the build produces.
ClipScale(x, vmin, vmax, nancast) ==
  IF vmax = vmin THEN nancast
  ELSE IF x <= vmin THEN 0
  ELSE IF x >= vmax THEN 255
  ELSE ((x - vmin) * 255) \div (vmax - vmin)

\* The grid g (a sequence of rows) with every sample replaced by 0 when it
\* is not finite
NanToNumGrid(g) ==
  [r \in 1..Len(g) |-> [c \in 1..Len(g[r]) |-> NanToNum(g[r][c])]]

\* The grid g clipped and scaled to 8 bits, sample by sample
ScaleGrid(g, vmin, vmax, nancast) ==
  [r \in 1..Len(g) |->
     [c \in 1..Len(g[r]) |-> ClipScale(g[r][c], vmin, vmax, nancast)]]

\* scipy.ndimage.zoom(g, (Target / h, Target / w), order=3): the output has
\* round(h * Target / h) rows and round(w * Target / w) columns; output
\* sample (r, c) is interpolated at input coordinate r*(h-1)/(oh-1).  The
\* spline interpolation is represented by the nearest input sample, which
\* is what it yields when the zoom factor is 1.
Zoom(g) ==
  LET h  == Len(g)
      w  == Len(g[1])
      oh == RoundDiv(h * Target, h)
      ow == RoundDiv(w * Target, w)
      src(o, n, on) == IF on = 1 THEN 1 ELSE RoundDiv((o - 1) * (n - 1), on - 1) + 1
  IN  [r \in 1..oh |-> [c \in 1..ow |-> g[src(r, h, oh)][src(c, w, ow)]]]

\* resized[:2048, :2048]
Crop(g) ==
  [r \in 1..Min(Len(g), Target) |-> SubSeq(g[r], 1, Min(Len(g[r]), Target))]

\* resized.flatten()
Flatten(g) == Concat(g)

\* data.size
GridSize(g) == IF g = << >> THEN 0 ELSE Len(g) * Len(g[1])

--------------------------------------------------------------------------
(* The archives: what the external collaborators serve                     *)

aia_wavelengths == << "131", "171", "193", "304", "1700" >>

wavelength_order == << "131", "171", "193", "304", "1700", "HMI" >>

\* The position of a label in wavelength_order
Slot(wl) == CHOOSE k \in 1..Len(wavelength_order) : wavelength_order[k] = wl

\* A raw n x n image whose sample number i (row-major, from 0) is f(i)
HmiRaw ==
  LET n == 2 * Target
  IN  [r \in 1..n |-> [c \in 1..n |->
         IF r = 1 /\ c = 2 THEN NaN
         ELSE 200 * ((r - 1) * n + (c - 1)) - 2000]]

AiaRaw(wl) ==
  LET k == Slot(wl)
      n == IF k % 2 = 0 THEN 2 * Target ELSE Target
      i(r, c) == (r - 1) * n + (c - 1)
  IN  [r \in 1..n |-> [c \in 1..n |->
         IF r = n /\ c = 1 /\ k = 3 THEN NaN
         ELSE (i(r, c) + k) * (i(r, c) + k)]]

\* solar_map.date of the file served for a wavelength
AiaDate(wl) == << 2024, 1, 1, 12, 0, 12 * Slot(wl) >>

\* What the JSOC client and server answer to download_hmi_nrt
HmiEnvs ==
  { [keys |-> << >>, segments |-> FALSE, http |-> "ok", data |-> << >>],
    [keys |-> << T_REC_latest >>, segments |-> FALSE, http |-> "ok", data |-> << >>],
    [keys |-> << T_REC_latest >>, segments |-> TRUE, http |-> "error", data |-> << >>],
    [keys |-> << T_REC_latest >>, segments |-> TRUE, http |-> "ok", data |-> << >>],
    [keys |-> << T_REC_latest >>, segments |-> TRUE, http |-> "ok", data |-> HmiRaw] }

\* What Fido and the file it fetches answer to download_and_process
AiaEnvs(wl) ==
  { [search |-> 0, fetch |-> "ok", data |-> << >>, date |-> None, nancast |-> 0],
    [search |-> 1, fetch |-> "error", data |-> << >>, date |-> None, nancast |-> 0],
    [search |-> 1, fetch |-> "ok", data |-> << >>, date |-> AiaDate(wl), nancast |-> 0],
    [search |-> 1, fetch |-> "ok", data |-> AiaRaw(wl), date |-> AiaDate(wl), nancast |-> 0] }

\* A file whose samples are all the same: data.max() == data.min()
AiaFlat(wl) == [r \in 1..Target |-> [c \in 1..Target |-> 40 * Slot(wl)]]

\* The bytes a build may produce when NaN is cast to uint8 (line 136): the
\* cast is undefined, 0 and 255 are what builds of numpy are seen to give
NanCasts == { 0, 255 }

\* What Fido and the file it fetches answer when the file is an image with
\* a spread of samples or a flat one
NormEnvs(wl) ==
  { [search |-> 1, fetch |-> "ok", data |-> AiaRaw(wl), date |-> AiaDate(wl), nancast |-> 0] }
  \cup
  { [search |-> 1, fetch |-> "ok", data |-> AiaFlat(wl), date |-> AiaDate(wl), nancast |-> c] :
      c \in NanCasts }

--------------------------------------------------------------------------
(* download_hmi_nrt and download_and_process                               *)

\* The value download_hmi_nrt returns: a 4-tuple, or None when the function
\* falls off its end (no magnetogram segment in the answer).
download_hmi_nrt(env) ==
  IF Len(env.keys) = 0 THEN << None, None, 0, 0 >>
  ELSE IF ~env.segments THEN None
  ELSE IF env.http # "ok" THEN << None, None, 0, 0 >>
  ELSE IF Strptime(StripTAI(env.keys[Len(env.keys)])) = None
       THEN << None, None, 0, 0 >>
  ELSE IF GridSize(env.data) = 0
       THEN << None, None, 0, 0 >>   \* 2048 / 0 raises, the except returns
  ELSE LET actual_timestamp == Strptime(StripTAI(env.keys[Len(env.keys)]))
           data      == NanToNumGrid(env.data)
           data_8bit == ScaleGrid(data, -1500, 1500, 0)
           resized   == Crop(Zoom(data_8bit))
       IN  << Flatten(resized), actual_timestamp,
              Len(resized[1]), Len(resized) >>

\* The value download_and_process returns: a 5-tuple, or the 7-tuple of the
\* except branch.
download_and_process(timestamp, wavelength, env) ==
  IF env.search = 0 THEN << None, timestamp, wavelength, 0, 0 >>
  ELSE IF env.fetch # "ok" THEN << None, timestamp, wavelength, 0, 0, 0, 0 >>
  ELSE IF GridSize(env.data) = 0 THEN << None, timestamp, wavelength, 0, 0 >>
  ELSE LET data      == NanToNumGrid(env.data)
           vmin      == SeqMin(Concat(data))
           vmax      == SeqMax(Concat(data))
           data_8bit == ScaleGrid(data, vmin, vmax, env.nancast)
           resized   == Crop(Zoom(data_8bit))
       IN  << Flatten(resized), env.date, wavelength,
              Len(resized[1]), Len(resized) >>

--------------------------------------------------------------------------
(* create_rgb_image and create_container_file                              *)

\* What stands for the ValueError create_rgb_image raises
ValueError == << -2 >>

\* Mutant of create_rgb_image: the length check of line 155 left out
create_rgb_image_NoCheck(r_channel, g_channel, b_channel) ==
  LET pixel_count == Len(r_channel)
      chan == << r_channel, g_channel, b_channel >>
      at(c, i) == IF i <= Len(chan[c]) THEN chan[c][i] ELSE 0
  IN  [j \in 1..(pixel_count * 3) |-> at(((j - 1) % 3) + 1, ((j - 1) \div 3) + 1)]

\* Mutant of create_rgb_image: the planes are laid one after the other
create_rgb_image_Planar(r_channel, g_channel, b_channel) ==
  IF Len(r_channel) # Len(g_channel) \/ Len(g_channel) # Len(b_channel)
  THEN ValueError
  ELSE r_channel \o g_channel \o b_channel

\* create_rgb_image: the interleaved bytes, or ValueError
create_rgb_image(r_channel, g_channel, b_channel) ==
  IF Len(r_channel) # Len(g_channel) \/ Len(g_channel) # Len(b_channel)
  THEN ValueError
  ELSE LET pixel_count == Len(r_channel)
           chan == << r_channel, g_channel, b_channel >>
       IN  [j \in 1..(pixel_count * 3) |->
              chan[((j - 1) % 3) + 1][((j - 1) \div 3) + 1]]

\* Mutant of Successful: the failed results are not filtered out
Successful_NoFilter(downloads) == downloads

\* [d for d in downloads if d[0] is not None]
RECURSIVE Successful(_)
Successful(downloads) ==
  IF downloads = << >> THEN << >>
  ELSE IF Head(downloads)[1] # None
       THEN << Head(downloads) >> \o Successful(Tail(downloads))
       ELSE Successful(Tail(downloads))

\* wl in {d[2]: d for d in successful}
InDict(successful, wl) == \E k \in 1..Len(successful) : successful[k][3] = wl

\* {d[2]: d for d in successful}[wl]: a later entry replaces an earlier one
DictGet(successful, wl) ==
  LET last == CHOOSE k \in 1..Len(successful) :
                /\ successful[k][3] = wl
                /\ \A m \in (k + 1)..Len(successful) : successful[m][3] # wl
  IN  successful[last]

\* Mutant of black_data: np.ones in place of np.zeros
black_data_Ones == [i \in 1..(Target * Target) |-> 1]

\* np.zeros(2048 * 2048, dtype=np.uint8)
black_data == [i \in 1..(Target * Target) |-> 0]

\* Mutant of OrderedDownloads: the slots are filled in arrival order
OrderedDownloads_ByArrival(timestamp, downloads) ==
  [k \in 1..Len(wavelength_order) |->
     IF k <= Len(downloads) /\ downloads[k][1] # None
     THEN downloads[k]
     ELSE << black_data, timestamp, wavelength_order[k], Target, Target >>]

\* Mutant of OrderedDownloads: the fallback record is stamped with another
\* time than the reference timestamp
OrderedDownloads_OtherStamp(timestamp, downloads) ==
  LET successful == Successful(downloads)
  IN  [k \in 1..Len(wavelength_order) |->
         IF InDict(successful, wavelength_order[k])
         THEN DictGet(successful, wavelength_order[k])
         ELSE << black_data, << 2024, 1, 1, 12, 30, 0 >>,
                 wavelength_order[k], Target, Target >>]

\* The list ordered_downloads that create_container_file builds
OrderedDownloads(timestamp, downloads) ==
  LET successful == Successful(downloads)
  IN  [k \in 1..Len(wavelength_order) |->
         IF InDict(successful, wavelength_order[k])
         THEN DictGet(successful, wavelength_order[k])
         ELSE << black_data, timestamp, wavelength_order[k], Target, Target >>]

\* struct.pack('<H', n)
PackH(n) == << n % 256, (n \div 256) % 256 >>

\* The arguments of the eight f.write calls of create_container_file, in order
ContainerWrites(timestamp, rgb_image_0, rgb_image_1) ==
  LET width  == Target
      height == Target
  IN  << << 2 >>, Strftime(timestamp),
         PackH(width), PackH(height), rgb_image_0,
         PackH(width), PackH(height), rgb_image_1 >>

--------------------------------------------------------------------------
(* The state of one run of main                                            *)

VARIABLES
  pc,               \* where main is
  error,            \* the exception that ended main, "" while there is none
  hmi_return,       \* what download_hmi_nrt returned, << >> before it has
  hmi,              \* (hmi_data, hmi_timestamp, hmi_width, hmi_height)
  futures,          \* per wavelength: the submitted task and its result
  yielded,          \* the futures as_completed has yielded
  aia_downloads,    \* the results appended so far, in arrival order
  all_downloads,    \* the argument `downloads` of create_container_file
  ordered_downloads,\* create_container_file's list, once built
  rgb_image_0,      \* create_container_file's first composite
  rgb_image_1,      \* create_container_file's second composite
  nwritten,         \* how many f.write calls on solar.dat have returned
  solar_dat,        \* the content of solar.dat, None while there is no file
  timestamp_txt,    \* the content of timestamp.txt, None while there is none
  norm              \* the clip-and-scale step run on its own: its image, its
                    \* range and its 8-bit output; << >> in a run of main

vars == << pc, error, hmi_return, hmi, futures, yielded, aia_downloads, all_downloads,
           ordered_downloads, rgb_image_0, rgb_image_1, nwritten,
           solar_dat, timestamp_txt, norm >>

Wavelengths == { aia_wavelengths[k] : k \in 1..Len(aia_wavelengths) }

\* What an earlier run left behind: its reference timestamp and its files
PrevTimestamp == << 2024, 1, 1, 11, 48, 0 >>

PrevContainer ==
  LET prev_hmi == [i \in 1..(Target * Target) |-> (37 * i) % 256]
  IN  Concat(ContainerWrites(PrevTimestamp,
               create_rgb_image(black_data, black_data, black_data),
               create_rgb_image(black_data, black_data, prev_hmi)))

\* The files before the run: none (a first run), or those of an earlier run
PriorFiles ==
  { << None, None >>, << PrevContainer, Strftime(PrevTimestamp) >> }

Init ==
  /\ pc = "start"
  /\ error = ""
  /\ hmi_return = << >>
  /\ hmi = << >>
  /\ futures = [wl \in Wavelengths |-> [state |-> "none", timestamp |-> None, result |-> << >>]]
  /\ yielded = {}
  /\ aia_downloads = << >>
  /\ all_downloads = << >>
  /\ ordered_downloads = << >>
  /\ rgb_image_0 = << >>
  /\ rgb_image_1 = << >>
  /\ nwritten = 0
  /\ \E prior \in PriorFiles : solar_dat = prior[1] /\ timestamp_txt = prior[2]
  /\ norm = << >>

\* main, line 211: download_hmi_nrt runs and returns
HmiAcquire ==
  /\ pc = "start"
  /\ \E env \in HmiEnvs : hmi_return' = download_hmi_nrt(env)
  /\ pc' = "hmi_returned"
  /\ UNCHANGED << norm, error, hmi, futures, yielded, aia_downloads, all_downloads,
                  ordered_downloads, rgb_image_0, rgb_image_1, nwritten,
                  solar_dat, timestamp_txt >>

\* Mutant of HmiDataIsNone: the check of line 213 left out
HmiDataIsNone_Never(ret) == FALSE

\* main, line 213: hmi_data is None
HmiDataIsNone(ret) == ret[1] = None

\* main, lines 211-214: the returned value is unpacked (a None return raises
\* TypeError) and a None hmi_data raises Exception
MainUnpack ==
  /\ pc = "hmi_returned"
  /\ IF hmi_return = None
     THEN /\ pc' = "aborted" /\ error' = "TypeError" /\ hmi' = hmi
     ELSE IF HmiDataIsNone(hmi_return)
     THEN /\ pc' = "aborted" /\ error' = "Exception" /\ hmi' = hmi_return
     ELSE /\ pc' = "submit" /\ error' = error /\ hmi' = hmi_return
  /\ UNCHANGED << norm, hmi_return, futures, yielded, aia_downloads, all_downloads,
                  ordered_downloads, rgb_image_0, rgb_image_1, nwritten,
                  solar_dat, timestamp_txt >>

\* datetime.now(timezone.utc), line 29: the wall-clock time of the run,
\* some minutes after the latest record was observed
now == << 2024, 1, 1, 12, 7, 31 >>

\* Mutant of MainSubmit: the tasks are given the wall-clock time
MainSubmit_Now ==
  /\ pc = "submit"
  /\ futures' = [wl \in Wavelengths |->
                   [state |-> "running", timestamp |-> now, result |-> << >>]]
  /\ pc' = "as_completed"
  /\ UNCHANGED << norm, error, hmi_return, hmi, yielded, aia_downloads, all_downloads,
                  ordered_downloads, rgb_image_0, rgb_image_1, nwritten,
                  solar_dat, timestamp_txt >>

\* main, lines 216-222: the five tasks are submitted with hmi_timestamp
MainSubmit ==
  /\ pc = "submit"
  /\ futures' = [wl \in Wavelengths |->
                   [state |-> "running", timestamp |-> hmi[2], result |-> << >>]]
  /\ pc' = "as_completed"
  /\ UNCHANGED << norm, error, hmi_return, hmi, yielded, aia_downloads, all_downloads,
                  ordered_downloads, rgb_image_0, rgb_image_1, nwritten,
                  solar_dat, timestamp_txt >>

\* A worker thread runs download_and_process(timestamp, wl) to its return
Task(wl) ==
  /\ futures[wl].state = "running"
  /\ \E env \in AiaEnvs(wl) :
       futures' = [futures EXCEPT ![wl] =
                     [state |-> "finished", timestamp |-> @.timestamp,
                      result |-> download_and_process(@.timestamp, wl, env)]]
  /\ UNCHANGED << norm, pc, error, hmi_return, hmi, yielded, aia_downloads, all_downloads,
                  ordered_downloads, rgb_image_0, rgb_image_1, nwritten,
                  solar_dat, timestamp_txt >>

\* Mutant of Completed: a finished future may be yielded again
Completed_Again == { wl \in Wavelengths : futures[wl].state = "finished" }

\* The futures as_completed may yield next: finished and not yet yielded
Completed == { wl \in Wavelengths : futures[wl].state = "finished" } \ yielded

\* main, lines 224-226: one iteration of the loop over as_completed
MainCollect ==
  /\ pc = "as_completed"
  /\ \E wl \in Completed :
       /\ aia_downloads' = Append(aia_downloads, futures[wl].result)
       /\ yielded' = yielded \cup {wl}
  /\ UNCHANGED << norm, pc, error, hmi_return, hmi, futures, all_downloads,
                  ordered_downloads, rgb_image_0, rgb_image_1, nwritten,
                  solar_dat, timestamp_txt >>

\* Mutant of LoopDone: the loop is left after the first result
LoopDone_Early == yielded # {}

\* as_completed is exhausted once every future has been yielded
LoopDone == yielded = Wavelengths

\* main, lines 224-229: the loop ends, the executor is shut down (it waits
\* for every task), all_downloads is built and create_container_file called
MainJoin ==
  /\ pc = "as_completed"
  /\ LoopDone
  /\ \A wl \in Wavelengths : futures[wl].state = "finished"
  /\ all_downloads' = aia_downloads \o << << hmi[1], hmi[2], "HMI", hmi[3], hmi[4] >> >>
  /\ pc' = "create_container_file"
  /\ UNCHANGED << norm, error, hmi_return, hmi, futures, yielded, aia_downloads,
                  ordered_downloads, rgb_image_0, rgb_image_1, nwritten,
                  solar_dat, timestamp_txt >>

\* create_container_file, lines 169-193: the list is assembled and the two
\* composites are built; a ValueError of create_rgb_image ends main.  No
\* later step of the model reads the arrival-ordered lists again (main reads
\* all_downloads only to print its summary), and the model drops them here.
ContainerAssemble ==
  /\ pc = "create_container_file"
  /\ \E od \in { OrderedDownloads(hmi[2], all_downloads) } :
     \E rgb0 \in { create_rgb_image(od[1][1], od[2][1], od[3][1]) } :
     \E rgb1 \in { IF rgb0 = ValueError THEN << >>
                   ELSE create_rgb_image(od[4][1], od[5][1], od[6][1]) } :
       /\ ordered_downloads' = od
       /\ IF rgb0 = ValueError
          THEN /\ pc' = "aborted" /\ error' = "ValueError"
               /\ UNCHANGED << rgb_image_0, rgb_image_1 >>
          ELSE IF rgb1 = ValueError
          THEN /\ pc' = "aborted" /\ error' = "ValueError"
               /\ rgb_image_0' = rgb0 /\ rgb_image_1' = rgb_image_1
          ELSE /\ pc' = "open" /\ error' = error
               /\ rgb_image_0' = rgb0 /\ rgb_image_1' = rgb1
  /\ aia_downloads' = << >>
  /\ all_downloads' = << >>
  /\ UNCHANGED << norm, hmi_return, hmi, futures, yielded, nwritten, solar_dat, timestamp_txt >>

\* create_container_file, line 195: open(container_path, 'wb') creates the
\* file or truncates it
ContainerOpen ==
  /\ pc = "open"
  /\ solar_dat' = << >>
  /\ nwritten' = 0
  /\ pc' = "write"
  /\ UNCHANGED << norm, error, hmi_return, hmi, futures, yielded, aia_downloads, all_downloads,
                  ordered_downloads, rgb_image_0, rgb_image_1, timestamp_txt >>

\* Mutant of NumWrites: the file is closed with the last f.write left out
NumWrites_Short == Len(ContainerWrites(PrevTimestamp, << >>, << >>)) - 1

\* The number of f.write calls of create_container_file
NumWrites == Len(ContainerWrites(PrevTimestamp, << >>, << >>))

\* create_container_file, lines 196-206: the next f.write
ContainerWrite ==
  /\ pc = "write"
  /\ nwritten < NumWrites
  /\ solar_dat' = solar_dat \o
       ContainerWrites(hmi[2], rgb_image_0, rgb_image_1)[nwritten + 1]
  /\ nwritten' = nwritten + 1
  /\ UNCHANGED << norm, pc, error, hmi_return, hmi, futures, yielded, aia_downloads,
                  all_downloads, ordered_downloads, rgb_image_0, rgb_image_1,
                  timestamp_txt >>

\* create_container_file, line 206: the with block ends, the file is closed
\* and create_container_file returns
ContainerClose ==
  /\ pc = "write"
  /\ nwritten = NumWrites
  /\ pc' = "timestamp_open"
  /\ UNCHANGED << norm, error, hmi_return, hmi, futures, yielded, aia_downloads, all_downloads,
                  ordered_downloads, rgb_image_0, rgb_image_1, nwritten,
                  solar_dat, timestamp_txt >>

\* main, line 232: open(timestamp_path, 'w') creates the file or truncates it
TimestampOpen ==
  /\ pc = "timestamp_open"
  /\ timestamp_txt' = << >>
  /\ pc' = "timestamp_write"
  /\ UNCHANGED << norm, error, hmi_return, hmi, futures, yielded, aia_downloads, all_downloads,
                  ordered_downloads, rgb_image_0, rgb_image_1, nwritten,
                  solar_dat >>

\* main, line 233: the timestamp is written and the file closed
TimestampWrite ==
  /\ pc = "timestamp_write"
  /\ timestamp_txt' = timestamp_txt \o Strftime(hmi[2])
  /\ pc' = "summary"
  /\ UNCHANGED << norm, error, hmi_return, hmi, futures, yielded, aia_downloads, all_downloads,
                  ordered_downloads, rgb_image_0, rgb_image_1, nwritten,
                  solar_dat >>

\* main, lines 235-252: the summary is printed and main returns
MainSummary ==
  /\ pc = "summary"
  /\ pc' = "done"
  /\ UNCHANGED << norm, error, hmi_return, hmi, futures, yielded, aia_downloads, all_downloads,
                  ordered_downloads, rgb_image_0, rgb_image_1, nwritten,
                  solar_dat, timestamp_txt >>

Next ==
  \/ HmiAcquire
  \/ MainUnpack
  \/ MainSubmit
  \/ \E wl \in Wavelengths : Task(wl)
  \/ MainCollect
  \/ MainJoin
  \/ ContainerAssemble
  \/ ContainerOpen
  \/ ContainerWrite
  \/ ContainerClose
  \/ TimestampOpen
  \/ TimestampWrite
  \/ MainSummary

Spec == Init /\ [][Next]_vars

\* The main thread runs on, and every worker thread runs its task to its end
FairSpec ==
  /\ Spec
  /\ WF_vars(HmiAcquire \/ MainUnpack \/ MainSubmit \/ MainCollect \/ MainJoin
             \/ ContainerAssemble \/ ContainerOpen \/ ContainerWrite
             \/ ContainerClose \/ TimestampOpen \/ TimestampWrite \/ MainSummary)
  /\ \A wl \in Wavelengths : WF_vars(Task(wl))

--------------------------------------------------------------------------
(* main with every auxiliary file fetched: images with a spread and flat   *)
(* images                                                                  *)

\* A worker thread runs download_and_process(timestamp, wl) to its return on
\* a file that Fido has fetched; `file` is that file, left in the working
\* directory (line 118)
TaskNorm(wl) ==
  /\ futures[wl].state = "running"
  /\ \E env \in NormEnvs(wl) :
       futures' = [futures EXCEPT ![wl] =
                     [state |-> "finished", timestamp |-> @.timestamp,
                      result |-> download_and_process(@.timestamp, wl, env),
                      file |-> env.data]]
  /\ UNCHANGED << norm, pc, error, hmi_return, hmi, yielded, aia_downloads, all_downloads,
                  ordered_downloads, rgb_image_0, rgb_image_1, nwritten,
                  solar_dat, timestamp_txt >>

NextNorm ==
  \/ HmiAcquire
  \/ MainUnpack
  \/ MainSubmit
  \/ \E wl \in Wavelengths : TaskNorm(wl)
  \/ MainCollect
  \/ MainJoin
  \/ ContainerAssemble
  \/ ContainerOpen
  \/ ContainerWrite
  \/ ContainerClose
  \/ TimestampOpen
  \/ TimestampWrite
  \/ MainSummary

SpecNorm == Init /\ [][NextNorm]_vars

--------------------------------------------------------------------------
(* The clip-and-scale step of the normalizer called on any image           *)

\* The samples of the images: below, at, inside and above the fixed range of
\* the reference instrument, and a non-finite one
ScaleSamples == { -2000, -1500, -1493, -6, 0, 6, 1499, 1500, 1501, 2000, NaN }

\* Images of one row and three samples
ScaleImages == { << << a, b, c >> >> : a, b, c \in ScaleSamples }

\* An image arrives at line 80 of download_hmi_nrt (fixed range) or at line
\* 129 of download_and_process (the range of the image itself)
InitScale ==
  /\ pc = "scale"
  /\ error = ""
  /\ hmi_return = << >>
  /\ hmi = << >>
  /\ futures = [wl \in Wavelengths |-> [state |-> "none", timestamp |-> None, result |-> << >>]]
  /\ yielded = {}
  /\ aia_downloads = << >>
  /\ all_downloads = << >>
  /\ ordered_downloads = << >>
  /\ rgb_image_0 = << >>
  /\ rgb_image_1 = << >>
  /\ nwritten = 0
  /\ solar_dat = None
  /\ timestamp_txt = None
  /\ \E g \in ScaleImages, reference \in BOOLEAN :
       norm = [raw |-> g, reference |-> reference]

\* Lines 80-83 (reference) and 129-136 (auxiliary): nan_to_num, the range,
\* clip and scale, the cast to uint8
Normalize ==
  /\ pc = "scale"
  /\ \E nancast \in NanCasts :
       LET data == NanToNumGrid(norm.raw)
           vmin == IF norm.reference THEN -1500 ELSE SeqMin(Concat(data))
           vmax == IF norm.reference THEN 1500 ELSE SeqMax(Concat(data))
       IN  norm' = [raw |-> norm.raw, reference |-> norm.reference,
                    data |-> data, vmin |-> vmin, vmax |-> vmax,
                    data_8bit |-> ScaleGrid(data, vmin, vmax, nancast)]
  /\ pc' = "scaled"
  /\ UNCHANGED << error, hmi_return, hmi, futures, yielded, aia_downloads,
                  all_downloads, ordered_downloads, rgb_image_0, rgb_image_1,
                  nwritten, solar_dat, timestamp_txt >>

NextScale == Normalize

SpecScale == InitScale /\ [][NextScale]_vars

--------------------------------------------------------------------------
(* create_container_file called on any list of results                     *)

\* The samples of a record handed to create_container_file for the k-th
\* label: one of two images of W*H samples, or an image one row short
CcImages(k) ==
  { [i \in 1..(Target * Target) |-> (16 * k + i) % 256],
    [i \in 1..(Target * Target) |-> (255 - 7 * i - k) % 256],
    [i \in 1..(Target * (Target - 1)) |-> (16 * k + i) % 256] }

CcTimestamp == << 2024, 1, 1, 12, 0, 0 >>

\* The results create_container_file may be handed for the k-th label: one
\* with no data, or a record
CcResults(k) ==
  { << None, CcTimestamp, wavelength_order[k], 0, 0 >> } \cup
  { << img, CcTimestamp, wavelength_order[k], Target, Len(img) \div Target >> :
      img \in CcImages(k) }

\* main at its call create_container_file(hmi_timestamp, all_downloads), with
\* any results in the list and no task behind them
InitCC ==
  /\ pc = "create_container_file"
  /\ error = ""
  /\ hmi_return = << >>
  /\ hmi = << None, CcTimestamp, 0, 0 >>
  /\ futures = [wl \in Wavelengths |-> [state |-> "none", timestamp |-> None, result |-> << >>]]
  /\ yielded = {}
  /\ \E r1 \in CcResults(1), r2 \in CcResults(2), r3 \in CcResults(3),
        r4 \in CcResults(4), r5 \in CcResults(5), r6 \in CcResults(6) :
       /\ aia_downloads = << r1, r2, r3, r4, r5 >>
       /\ all_downloads = << r1, r2, r3, r4, r5, r6 >>
  /\ ordered_downloads = << >>
  /\ rgb_image_0 = << >>
  /\ rgb_image_1 = << >>
  /\ nwritten = 0
  /\ \E prior \in PriorFiles : solar_dat = prior[1] /\ timestamp_txt = prior[2]
  /\ norm = << >>

NextCC ==
  \/ ContainerAssemble
  \/ ContainerOpen
  \/ ContainerWrite
  \/ ContainerClose
  \/ TimestampOpen
  \/ TimestampWrite
  \/ MainSummary

SpecCC == InitCC /\ [][NextCC]_vars

--------------------------------------------------------------------------
(* Notions the properties are stated with                                  *)

\* The reference acquisition has returned, and returned no data
HmiFailed ==
  /\ hmi_return # << >>
  /\ (hmi_return = None \/ hmi_return[1] = None)

\* The reference acquisition has returned a record
HmiOk == hmi_return # << >> /\ ~HmiFailed

\* The task of a wavelength has ended with no data
AuxFailed(wl) ==
  futures[wl].state = "finished" /\ futures[wl].result[1] = None

\* The task of a wavelength has ended with a record
AuxOk(wl) ==
  futures[wl].state = "finished" /\ futures[wl].result[1] # None

\* W*H zero samples
ZeroRun == [i \in 1..(Target * Target) |-> 0]

\* The samples the artifact is to hold for slot k of the fixed label order
SlotData(k) ==
  IF k = 6 THEN hmi[1]
  ELSE IF AuxOk(wavelength_order[k]) THEN futures[wavelength_order[k]].result[1]
  ELSE ZeroRun

\* 1 + 19 + 2 * (4 + W*H*3)
ExpectedLen == 1 + 19 + 2 * (4 + Target * Target * 3)

\* The plane of slot k read back from the bytes of an artifact: composite
\* (k-1) \div 3, channel (k-1) % 3
Plane(file, k) ==
  LET n    == Target * Target
      base == 20 + ((k - 1) \div 3) * (4 + 3 * n) + 4
  IN  [i \in 1..n |-> file[base + 3 * (i - 1) + ((k - 1) % 3) + 1]]

\* The image bytes of composite g (0 or 1) read back from an artifact
Composite(file, g) ==
  LET n    == Target * Target
      base == 20 + g * (4 + 3 * n) + 4
  IN  SubSeq(file, base + 1, base + 3 * n)

\* create_container_file has returned: solar.dat has been written and closed
Written == pc \in {"timestamp_open", "timestamp_write", "summary", "done"}

\* main is in create_container_file or past it
Serializing ==
  \/ pc \in {"create_container_file", "open", "write"}
  \/ Written
  \/ (pc = "aborted" /\ error = "ValueError")

--------------------------------------------------------------------------
(* C1 *)

\* C1: when the reference acquisition fails (it returns no data, or returns
\* nothing at all), main goes nowhere but to its abort with an error: no
\* auxiliary task is ever started and solar.dat and timestamp.txt stay what
\* they were before the run.
C1_ReferenceFailureAborts ==
  HmiFailed =>
    /\ pc \in {"hmi_returned", "aborted"}
    /\ pc = "aborted" => error \in {"TypeError", "Exception"}
    /\ \A wl \in Wavelengths : futures[wl].state = "none"
    /\ << solar_dat, timestamp_txt >> \in PriorFiles

C1_Witness ==
  /\ HmiFailed
  /\ pc = "aborted"
  /\ solar_dat = PrevContainer

(* C2 *)

\* C2: once the reference acquisition has succeeded, whatever the five
\* auxiliary tasks return (no data after an empty search or empty image, the
\* result of the except branch, or a record), the run is not aborted: it
\* reaches its end with the complete container and the timestamp file
\* written.
C2_AuxiliaryFailureNeverAborts ==
  (pc = "submit") ~>
     (/\ pc = "done"
      /\ Len(solar_dat) = ExpectedLen
      /\ timestamp_txt = Strftime(hmi[2]))

C2_Witness ==
  /\ pc = "done"
  /\ \E wl \in Wavelengths : AuxFailed(wl) /\ Len(futures[wl].result) = 7
  /\ \E wl \in Wavelengths : AuxFailed(wl) /\ Len(futures[wl].result) = 5
  /\ \E wl \in Wavelengths : AuxOk(wl)

(* C3 *)

\* C3: in the written artifact the plane of every failed auxiliary channel
\* is W*H zero samples and the plane of every successful channel is that
\* channel's normalized data, whichever other channels failed; when all five
\* failed, composite 0 is zero throughout and composite 1 is zero but for its
\* third plane, the reference image.
C3_FailedPlanesAreZero ==
  Written =>
    /\ Len(solar_dat) = ExpectedLen
    /\ \A k \in 1..5 :
         Plane(solar_dat, k) =
           IF AuxFailed(wavelength_order[k]) THEN ZeroRun
           ELSE futures[wavelength_order[k]].result[1]
    /\ Plane(solar_dat, 6) = hmi[1]
    /\ (\A wl \in Wavelengths : AuxFailed(wl)) =>
         /\ \A j \in 1..(3 * Target * Target) : Composite(solar_dat, 0)[j] = 0
         /\ \A j \in 1..(3 * Target * Target) :
              Composite(solar_dat, 1)[j] =
                IF j % 3 = 0 THEN hmi[1][j \div 3] ELSE 0

C3_Witness ==
  /\ Written
  /\ AuxFailed("131") /\ AuxOk("171") /\ AuxOk("193")
  /\ AuxOk("304") /\ AuxFailed("1700")
  /\ \E i \in 1..(Target * Target) : futures["171"].result[1][i] # 0

(* C4 *)

\* The results keyed by label, in the order of aia_wavelengths, whatever the
\* order they arrived in
ByLabel ==
  [k \in 1..5 |-> futures[aia_wavelengths[k]].result]
    \o << << hmi[1], hmi[2], "HMI", hmi[3], hmi[4] >> >>

\* C4: the slot of each channel is fixed by its label and not by the order
\* in which the results were appended: the list assembled from the results
\* as they arrived is the one assembled from the results in label order,
\* slot k holds the record of the k-th label of [131, 171, 193, 304, 1700,
\* HMI], and in the artifact composite 0 is slots 1-3 and composite 1 is
\* slots 4-6.
C4_OrderIndependentOfCompletion ==
  /\ pc = "create_container_file" =>
       OrderedDownloads(hmi[2], all_downloads) = OrderedDownloads(hmi[2], ByLabel)
  /\ ordered_downloads # << >> =>
       \A k \in 1..6 :
         /\ ordered_downloads[k][3] = wavelength_order[k]
         /\ ordered_downloads[k][1] = SlotData(k)
  /\ Written =>
       /\ Len(solar_dat) = ExpectedLen
       /\ \A k \in 1..6 : Plane(solar_dat, k) = SlotData(k)

C4_Witness ==
  /\ pc = "create_container_file"
  /\ aia_downloads[1][3] = "1700" /\ aia_downloads[1][1] # None
  /\ aia_downloads[2][3] = "193" /\ aia_downloads[2][1] = None
  /\ aia_downloads[5][3] = "131" /\ aia_downloads[5][1] # None

(* C5 *)

\* C5: whenever main is in create_container_file or past it, each of the
\* five auxiliary tasks has ended and each of the five results has been
\* collected.
C5_SerializationAfterJoin ==
  Serializing =>
    /\ \A wl \in Wavelengths : futures[wl].state = "finished"
    /\ yielded = Wavelengths
    /\ pc = "create_container_file" =>
         /\ Len(aia_downloads) = 5
         /\ Len(all_downloads) = 6

C5_Witness ==
  /\ pc = "create_container_file"
  /\ \E wl \in Wavelengths : AuxFailed(wl)
  /\ \E wl \in Wavelengths : AuxOk(wl)

(* C6 *)

\* C6: the list create_container_file assembles holds exactly six records,
\* the k-th with the k-th label of the fixed order (so one per label); the
\* record of a label with no successful result is W*H zeros, W x H, stamped
\* with the reference timestamp, and every other record is the successful
\* result itself.
C6_OneRecordPerLabel ==
  ordered_downloads # << >> =>
    /\ Len(ordered_downloads) = 6
    /\ \A k \in 1..6 : ordered_downloads[k][3] = wavelength_order[k]
    /\ \A k \in 1..5 :
         ordered_downloads[k] =
           IF AuxFailed(wavelength_order[k])
           THEN << ZeroRun, hmi[2], wavelength_order[k], Target, Target >>
           ELSE futures[wavelength_order[k]].result
    /\ ordered_downloads[6] = << hmi[1], hmi[2], "HMI", hmi[3], hmi[4] >>

C6_Witness ==
  /\ ordered_downloads # << >>
  /\ AuxFailed("171") /\ AuxOk("304")
  /\ ordered_downloads[2][1] = ZeroRun
  /\ ordered_downloads[4][1] # ZeroRun

(* C7 *)

\* The complete artifact of this run, once its two composites are built
NewContainer == Concat(ContainerWrites(hmi[2], rgb_image_0, rgb_image_1))

\* C7: at every point of a run solar.dat is absent or the complete previous
\* artifact, or it is the complete new artifact; it is never seen truncated
\* or partly written.
C7_ContainerWrittenAtomically ==
  \/ solar_dat \in { prior[1] : prior \in PriorFiles }
  \/ (rgb_image_1 # << >> /\ solar_dat = NewContainer)

(* C8 *)

\* '2024-01-01 12:00:00', the reference timestamp of the record T_REC_latest
ReferenceText ==
  << 50, 48, 50, 52, 45, 48, 49, 45, 48, 49, 32,
     49, 50, 58, 48, 48, 58, 48, 48 >>

\* C8: once create_container_file has returned, solar.dat is
\* 1 + 19 + 2*(4 + W*H*3) bytes long; its first byte is 2 and its next 19
\* bytes are the reference timestamp as 'YYYY-MM-DD HH:MM:SS', whichever
\* auxiliary channels failed.
C8_ArtifactLengthAndHeader ==
  Written =>
    /\ Len(solar_dat) = ExpectedLen
    /\ solar_dat[1] = 2
    /\ SubSeq(solar_dat, 2, 20) = ReferenceText

C8_Witness ==
  /\ pc = "done"
  /\ \E wl \in Wavelengths : AuxFailed(wl)
  /\ \E wl \in Wavelengths : AuxOk(wl)
  /\ Len(solar_dat) = 1 + 19 + 2 * (4 + Target * Target * 3)

(* C9 *)

\* The three records of group g (0 or 1) of an assembled list do not all
\* have the same number of samples
GroupMismatch(od, g) ==
  \/ Len(od[3 * g + 1][1]) # Len(od[3 * g + 2][1])
  \/ Len(od[3 * g + 2][1]) # Len(od[3 * g + 3][1])

\* C9: when the three channels of either group differ in sample count,
\* create_container_file raises and main ends with that error, before
\* solar.dat is opened: no f.write has happened, and solar.dat and
\* timestamp.txt are what they were before the call.
C9_LengthMismatchWritesNothing ==
  (/\ ordered_downloads # << >>
   /\ (GroupMismatch(ordered_downloads, 0) \/ GroupMismatch(ordered_downloads, 1))) =>
    /\ pc = "aborted"
    /\ error = "ValueError"
    /\ nwritten = 0
    /\ << solar_dat, timestamp_txt >> \in PriorFiles

C9_Witness ==
  /\ pc = "aborted"
  /\ ordered_downloads # << >>
  /\ ~GroupMismatch(ordered_downloads, 0)
  /\ GroupMismatch(ordered_downloads, 1)
  /\ solar_dat = PrevContainer

(* C10 *)

\* Plane c (0, 1 or 2) taken back out of an interleaved byte string
Deinterleave(rgb, c) ==
  [i \in 1..(Len(rgb) \div 3) |-> rgb[3 * (i - 1) + c + 1]]

\* rgb is the interleaving of the three channels of equal length
Interleaves(rgb, r_channel, g_channel, b_channel) ==
  LET n    == Len(r_channel)
      chan == << r_channel, g_channel, b_channel >>
  IN  /\ Len(rgb) = 3 * n
      /\ \A i \in 0..(n - 1) : \A c \in 0..2 :
           rgb[3 * i + c + 1] = chan[c + 1][i + 1]
      /\ \A c \in 0..2 : Deinterleave(rgb, c) = chan[c + 1]

\* C10: on three channels of equal length n create_rgb_image returns 3n
\* bytes, the byte at 3*i + c being sample i of channel c, and taking every
\* third byte from offset c gives channel c back.
C10_InterleaveRoundTrip ==
  /\ rgb_image_0 # << >> =>
       Interleaves(rgb_image_0, ordered_downloads[1][1],
                   ordered_downloads[2][1], ordered_downloads[3][1])
  /\ rgb_image_1 # << >> =>
       Interleaves(rgb_image_1, ordered_downloads[4][1],
                   ordered_downloads[5][1], ordered_downloads[6][1])

C10_Witness ==
  /\ rgb_image_0 # << >>
  /\ rgb_image_1 # << >>
  /\ Len(rgb_image_0) = 3 * Target * (Target - 1)
  /\ ordered_downloads[4][1] # ordered_downloads[5][1]
  /\ ordered_downloads[5][1] # ordered_downloads[6][1]
  /\ ordered_downloads[4][1] # ordered_downloads[6][1]

(* C11 *)

\* Every sample of the image g is the same once nan_to_num has been applied
IsFlat(g) ==
  /\ g # << >>
  /\ \A r \in 1..Len(g) : \A c \in 1..Len(g[r]) :
       NanToNum(g[r][c]) = NanToNum(g[1][1])

\* C11: a task whose fetched image is flat (vmax == vmin) ends with no data,
\* as a failure does, and the record assembled for its label is the fallback
\* record: W*H zeros, W x H, stamped with the reference timestamp.
C11_FlatImageIsFailure ==
  \A wl \in Wavelengths :
    (futures[wl].state = "finished" /\ IsFlat(futures[wl].file)) =>
      /\ futures[wl].result[1] = None
      /\ ordered_downloads # << >> =>
           ordered_downloads[Slot(wl)] = << ZeroRun, hmi[2], wl, Target, Target >>

(* C12 *)

\* The image g with each row reversed: column x holds column W-1-x of g
Mirror(g) == [r \in 1..Len(g) |-> [c \in 1..Len(g[r]) |-> g[r][Len(g[r]) + 1 - c]]]

\* The resized 8-bit image of the magnetogram the server sends
HmiResized == Crop(Zoom(ScaleGrid(NanToNumGrid(HmiRaw), -1500, 1500, 0)))

\* The resized 8-bit image of the file fetched for a wavelength
AiaResized(wl) ==
  LET data == NanToNumGrid(AiaRaw(wl))
  IN  Crop(Zoom(ScaleGrid(data, SeqMin(Concat(data)), SeqMax(Concat(data)), 0)))

\* C12: the samples of the reference record handed to create_container_file
\* are the resized image mirrored left to right, and the samples of every
\* auxiliary record are its resized image as it is.
C12_ReferenceIsMirrored ==
  /\ HmiOk => hmi_return[1] = Flatten(Mirror(HmiResized))
  /\ pc = "create_container_file" =>
       all_downloads[6][1] = Flatten(Mirror(HmiResized))
  /\ \A wl \in Wavelengths :
       AuxOk(wl) => futures[wl].result[1] = Flatten(AiaResized(wl))

(* C13 *)

\* trunc(clamp((x - vmin) / (vmax - vmin), 0, 1) * 255) for integers x and
\* vmin < vmax: the clamped quotient is a fraction of denominator vmax - vmin
TruncClamp(x, vmin, vmax) ==
  (Min(Max(x - vmin, 0), vmax - vmin) * 255) \div (vmax - vmin)

\* C13: on an image of integer samples and a range vmin < vmax (-1500..1500
\* for the reference, the least and greatest sample of the image for an
\* auxiliary channel) every sample x becomes
\* trunc(clamp((x - vmin) / (vmax - vmin), 0, 1) * 255): a value of 0..255,
\* 0 for x at or below vmin, 255 for x at or above vmax, and never smaller
\* than the value of a smaller sample.
C13_ClipScaleTruncates ==
  (pc = "scaled" /\ norm.vmin < norm.vmax) =>
    /\ norm.reference => (norm.vmin = -1500 /\ norm.vmax = 1500)
    /\ ~norm.reference =>
         /\ \A i \in 1..Len(norm.data[1]) :
              norm.vmin <= norm.data[1][i] /\ norm.data[1][i] <= norm.vmax
         /\ \E i \in 1..Len(norm.data[1]) : norm.data[1][i] = norm.vmin
         /\ \E i \in 1..Len(norm.data[1]) : norm.data[1][i] = norm.vmax
    /\ \A i \in 1..Len(norm.data[1]) :
         LET x == norm.data[1][i]
             y == norm.data_8bit[1][i]
         IN  /\ y \in 0..255
             /\ y = TruncClamp(x, norm.vmin, norm.vmax)
             /\ x <= norm.vmin => y = 0
             /\ x >= norm.vmax => y = 255
             /\ \A j \in 1..Len(norm.data[1]) :
                  norm.data[1][j] <= x => norm.data_8bit[1][j] <= y

C13_Witness ==
  /\ pc = "scaled"
  /\ norm.reference
  /\ norm.raw = << << -2000, -1493, 1500 >> >>
  /\ norm.data_8bit = << << 0, 0, 255 >> >>

(* C14 *)

\* The time at which the latest record was observed: its T_REC
ObservedTimestamp == Strptime(StripTAI(T_REC_latest))

\* C14: a task has been submitted or has run only when the reference
\* acquisition has returned a record and main has taken it; the timestamp
\* argument of each of the five tasks is the observed timestamp of that
\* record, not the wall-clock time; the result of a task that failed and the
\* fallback record assembled for its label carry that timestamp.
C14_TasksGetReferenceTimestamp ==
  \A wl \in Wavelengths :
    /\ futures[wl].state # "none" =>
         /\ HmiOk
         /\ hmi = hmi_return
         /\ pc \notin {"start", "hmi_returned", "submit"}
         /\ futures[wl].timestamp = hmi_return[2]
         /\ futures[wl].timestamp = ObservedTimestamp
         /\ futures[wl].timestamp # now
         /\ \A other \in Wavelengths :
              /\ futures[other].state # "none"
              /\ futures[other].timestamp = futures[wl].timestamp
    /\ AuxFailed(wl) =>
         /\ futures[wl].result[2] = hmi_return[2]
         /\ ordered_downloads # << >> =>
              ordered_downloads[Slot(wl)][2] = hmi_return[2]

C14_Witness ==
  /\ ordered_downloads # << >>
  /\ AuxFailed("131") /\ Len(futures["131"].result) = 7
  /\ AuxFailed("193") /\ Len(futures["193"].result) = 5
  /\ AuxOk("304") /\ futures["304"].result[2] # hmi[2]
  /\ ordered_downloads[1][2] = ObservedTimestamp
  /\ ordered_downloads[3][2] = ObservedTimestamp

(* C15 *)

\* The labels of the results in a list
Labels(downloads) == { downloads[i][3] : i \in 1..Len(downloads) }

\* The result list while it is filled and when it is handed on: one result
\* for each future yielded, each the result of the task of its label
CollectedOnce ==
  pc \in {"as_completed", "create_container_file"} =>
    /\ Len(aia_downloads) = Cardinality(yielded)
    /\ Labels(aia_downloads) = yielded
    /\ \A i \in 1..Len(aia_downloads) :
         aia_downloads[i] = futures[aia_downloads[i][3]].result
    /\ pc = "create_container_file" =>
         /\ Len(aia_downloads) = 5
         /\ Labels(aia_downloads) = Wavelengths

\* A step in which the task of wl ends changes the future of wl and nothing
\* else: not the result list, not the future of another task
TaskStepIsLocal ==
  \A wl \in Wavelengths :
    (futures[wl].state = "running" /\ futures'[wl].state = "finished") =>
      /\ aia_downloads' = aia_downloads
      /\ yielded' = yielded
      /\ \A other \in Wavelengths \ {wl} : futures'[other] = futures[other]

\* The result list grows only in a step of main's loop over as_completed,
\* by the result of one finished task that had not been yielded
OnlyMainAppends ==
  (Len(aia_downloads') > Len(aia_downloads)) =>
    /\ pc = "as_completed"
    /\ futures' = futures
    /\ \E wl \in Wavelengths \ yielded :
         /\ futures[wl].state = "finished"
         /\ aia_downloads' = Append(aia_downloads, futures[wl].result)
         /\ yielded' = yielded \cup {wl}

\* C15: the tasks touch nothing but their own future, only main appends to
\* the result list, the result of each task is appended once, and when the
\* loop and the executor are left the list holds five results, one for each
\* wavelength, in whatever order the tasks ended.
C15_EachResultCollectedOnce ==
  /\ []CollectedOnce
  /\ [][TaskStepIsLocal /\ OnlyMainAppends]_vars

C15_Witness ==
  /\ pc = "create_container_file"
  /\ Len(aia_downloads) = 5
  /\ aia_downloads[1][3] = "304"
  /\ aia_downloads[2][3] = "131"
  /\ aia_downloads[3][3] = "1700"
  /\ aia_downloads[1][1] = None
  /\ aia_downloads[2][1] # None

(* C16 *)

\* struct.unpack('<H', b)
UnpackH(b) == b[1] + 256 * b[2]

\* The number of image bytes the header at bytes off+1 .. off+4 of an
\* artifact declares: width * height * 3
Declared(file, off) ==
  UnpackH(SubSeq(file, off + 1, off + 2)) * UnpackH(SubSeq(file, off + 3, off + 4)) * 3

\* C16: in solar.dat as create_container_file leaves it, the header of each
\* composite declares as many image bytes (width * height * 3) as follow it:
\* those of composite 0 end where the header of composite 1 starts, those of
\* composite 1 end the file.  This for any six records the function takes
\* without raising.
C16_HeaderMatchesImageBytes ==
  Written =>
    /\ Len(solar_dat) >= 24
    /\ Declared(solar_dat, 20) = Len(rgb_image_0)
    /\ Len(solar_dat) >= 24 + Declared(solar_dat, 20) + 4
    /\ Declared(solar_dat, 24 + Declared(solar_dat, 20)) = Len(rgb_image_1)
    /\ Len(solar_dat) =
         24 + Declared(solar_dat, 20) + 4
            + Declared(solar_dat, 24 + Declared(solar_dat, 20))

(* C17 *)

\* timestamp.txt is no longer what the run found: main has opened it
TimestampUpdated == timestamp_txt \notin { prior[2] : prior \in PriorFiles }

\* solar.dat is the complete artifact of this run
ContainerComplete ==
  /\ rgb_image_1 # << >>
  /\ nwritten = Len(ContainerWrites(hmi[2], rgb_image_0, rgb_image_1))
  /\ solar_dat = NewContainer
  /\ Len(solar_dat) = ExpectedLen

\* C17: timestamp.txt is opened and written only once solar.dat holds the
\* complete artifact of the same run and has been closed; what is written is
\* the reference timestamp as 'YYYY-MM-DD HH:MM:SS', the very bytes at
\* offsets 1..19 of that artifact; a run that ends without the artifact
\* leaves timestamp.txt as it found it.
C17_TimestampAfterContainer ==
  /\ [](TimestampUpdated =>
          /\ pc \in {"timestamp_write", "summary", "done"}
          /\ ContainerComplete
          /\ timestamp_txt # << >> =>
               /\ timestamp_txt = SubSeq(solar_dat, 2, 20)
               /\ timestamp_txt = Strftime(hmi[2]))
  /\ [](pc \in {"summary", "done"} =>
          /\ Len(timestamp_txt) = 19
          /\ timestamp_txt = SubSeq(solar_dat, 2, 20))
  /\ [][timestamp_txt' # timestamp_txt =>
          /\ ContainerComplete
          /\ solar_dat' = solar_dat
          /\ pc \in {"timestamp_open", "timestamp_write"}]_vars

C17_Witness ==
  /\ pc = "summary"
  /\ TimestampUpdated
  /\ timestamp_txt = ReferenceText
  /\ SubSeq(solar_dat, 2, 20) = ReferenceText
  /\ \E wl \in Wavelengths : AuxFailed(wl)

====
